---- MODULE Spec2Model ----
(***************************************************************************)
(* Model of the IoT attendance session coordinator of Stuma                *)
(* (server/controllers/iot.controller.js) together with the collaborators  *)
(* it calls: the Student and Class collections and the Attendance          *)
(* collection with its unique (class, date) index.                         *)
(*                                                                         *)
(* Node runs one handler at a time and switches handlers only at an        *)
(* `await`.  Every action below is therefore one synchronous segment of a  *)
(* handler: from its entry (or from the point where the database serves    *)
(* its query) up to the next query or to the response.  What a handler     *)
(* answers is a function of the registry and of its inputs; it is given by *)
(* the ...Response operators.                                              *)
(***************************************************************************)
EXTENDS Integers, Sequences, FiniteSets, Bags, TLC

\* ------------------------------------------------------------------ bounds
MaxSessions == 2      \* session ids that generateSessionId hands out in a run
MaxInflight == 2      \* handlers suspended at an await at the same time
NumStudents == 3      \* student documents that can exist
MaxSerialIds == 3     \* session ids handed out in a run whose starts come one at a time

\* ---------------------------------------------------------------- universe
Teachers   == {"t1", "t2"}
NoClass    == "c0"                       \* an id Class.findById does not find
Classes    == {"c1", "c2"}
Dates      == {"d1"}
Students   == 1..NumStudents             \* _id; rollNo order is id order
SessionIds == 1..MaxSessions
NoStudent  == 0                          \* undefined / null student
NoSession  == 0                          \* undefined / empty session id
Statuses   == {"present", "absent"}

\* Class.teacher of the class documents
ClassOwner(c) == IF c = "c1" THEN "t1" ELSE "t2"

\* Student.teacher of the student documents
TeacherOf(s) == IF s % 2 = 1 THEN "t1" ELSE "t2"

VARIABLES
    activeSessions,   \* the Map sessionId -> session
    attendanceDb,     \* the Attendance collection, in insertion order
    studentDb,        \* the Student collection (set of existing _id)
    nextId,           \* next value generateSessionId returns
    reqs,             \* bag of the handlers suspended at an await
    assignedSince,    \* history: sessions with a successful assign since their start,
                      \*          their last cursor advance and no stop since
    handedOver,       \* history: sessions whose outcomes a stop has passed to Attendance.create
    iotSession,       \* the attendance page: the session it has started
    iotStatus         \* the attendance page: the status it has polled last

vars == <<activeSessions, attendanceDb, studentDb, nextId, reqs,
          assignedSince, handedOver, iotSession, iotStatus>>

\* ------------------------------------------------------------ pure helpers
RECURSIVE SortAsc(_)
SortAsc(S) ==
    IF S = {} THEN <<>>
    ELSE LET m == CHOOSE x \in S : \A y \in S : x <= y
         IN  <<m>> \o SortAsc(S \ {m})

\* mutant of FindStudents: the query has no teacher filter
FindAllStudents(db, t) == SortAsc(db)

\* Student.find({ teacher }).sort({ rollNo: 1 }), mapped to the session's students
FindStudents(db, t) == SortAsc({s \in db : TeacherOf(s) = t})

\* Attendance.findOne({ class, date }): the positions of the matching documents
FindAttendance(db, c, d) == {i \in 1..Len(db) : db[i].class = c /\ db[i].date = d}

\* mutant of CountStatus: the filter lets every outcome through
CountEveryOutcome(records, v) == Cardinality(DOMAIN records)

\* Object.values(records).filter(s => s === v).length
CountStatus(records, v) == Cardinality({k \in DOMAIN records : records[k] = v})

\* activeSessions.set(sessionId, session)
MapSet(m, k, v) == [x \in DOMAIN m \cup {k} |-> IF x = k THEN v ELSE m[x]]

\* mutant of MapDelete: the session is never taken out of the registry
MapDeleteKeeps(m, k) == m

\* activeSessions.delete(sessionId)
MapDelete(m, k) == [x \in DOMAIN m \ {k} |-> m[x]]

\* session.students[session.currentIndex] (JavaScript arrays count from 0)
CurrentOf(s) == s.students[s.currentIndex + 1]

\* `${sessionId}:${currentStudent._id}`, as its colon separated fields
MakeToken(sid, stu) == <<sid, stu>>

\* const [sessionId, studentId] = attendanceId.split(":")
ParseToken(tok) ==
    [sessionId |-> IF Len(tok) >= 1 THEN tok[1] ELSE NoSession,
     studentId |-> IF Len(tok) >= 2 THEN tok[2] ELSE NoStudent]

\* ---------------------------------------------------------------- responses
BaseResp(code, kind) ==
    [code |-> code, kind |-> kind,
     sessionId |-> NoSession, hasStudent |-> FALSE, student |-> NoStudent,
     token |-> <<>>, position |-> 0, total |-> 0, present |-> 0, absent |-> 0,
     hasSummary |-> FALSE, isDone |-> FALSE]

\* a handler that is suspended at an await has not answered yet
Pending == BaseResp(0, "pending")

\* the local variables of a suspended handler
IdleReq ==
    [op |-> "idle", pc |-> "idle", teacherId |-> "t1", classId |-> NoClass,
     date |-> "d1", students |-> <<>>, sessionId |-> NoSession,
     records |-> <<>>]

\* number of suspended handlers of operation op
InFlight(op)  ==
    LET S == {q \in BagToSet(reqs) : q.op = op}
    IN  IF S = {} THEN 0 ELSE BagCardinality([q \in S |-> reqs[q]])
Suspend(rec)  == reqs (+) SetToBag({rec})
Resume(rec)   == reqs (-) SetToBag({rec})
Suspended     == BagToSet(reqs)
CanSuspend    == BagCardinality(reqs) < MaxInflight

\* useState(null) of iotSession and iotStatus; of a polled status the page
\* reads hasStudent, currentIndex and totalStudents
NoIotSession == [sessionId |-> NoSession, teacherId |-> "t1"]
NoIotStatus  == [polled |-> FALSE, hasStudent |-> FALSE, currentIndex |-> 0,
                 totalStudents |-> 0]

Init ==
    /\ activeSessions = << >>
    /\ attendanceDb = << >>
    /\ studentDb = {}
    /\ nextId = 1
    /\ reqs = EmptyBag
    /\ assignedSince = {}
    /\ handedOver = {}
    /\ iotSession = NoIotSession
    /\ iotStatus = NoIotStatus

\* ------------------------------------------------------------ startSession
\* mutant of EvictActive: startSession without the eviction loop
EvictNothing(m, t) == m

\* mutant of EvictActive: the loop does not compare the teacher
EvictEveryActive(m, t) == [x \in {k \in DOMAIN m : ~m[k].active} |-> m[x]]

\* for (const [sessionId, session] of activeSessions)
\*     if (session.teacherId === teacherId && session.active) activeSessions.delete(sessionId)
EvictActive(m, t) ==
    [x \in {k \in DOMAIN m : ~(m[k].teacherId = t /\ m[k].active)} |-> m[x]]

\* mutant of NewSession: the session starts with a student already handed over
NewSessionAssigned(sid, c, d, t, students, now) ==
    [sessionId |-> sid, classId |-> c, date |-> d, teacherId |-> t,
     students |-> students, currentIndex |-> 0, active |-> TRUE,
     hasStudent |-> TRUE, records |-> << >>, createdAt |-> now]

\* const session = { sessionId, classId, date, teacherId, students, currentIndex: 0, ... }
NewSession(sid, c, d, t, students, now) ==
    [sessionId |-> sid, classId |-> c, date |-> d, teacherId |-> t,
     students |-> students, currentIndex |-> 0, active |-> TRUE,
     hasStudent |-> FALSE, records |-> << >>, createdAt |-> now]

\* mutant of StartCheckResponse: the attendance lookup comes before the owner check
StartCheckAttendanceFirst(db, t, c, d) ==
    IF c \notin Classes THEN BaseResp(404, "ClassNotFound")
    ELSE IF FindAttendance(db, c, d) # {} THEN BaseResp(400, "AttendanceAlreadyExists")
    ELSE IF ClassOwner(c) # t THEN BaseResp(403, "NotOwner")
    ELSE Pending

\* what startSession answers before it reaches Student.find
StartCheckResponse(db, t, c, d) ==
    IF c \notin Classes THEN BaseResp(404, "ClassNotFound")
    ELSE IF ClassOwner(c) # t THEN BaseResp(403, "NotOwner")
    ELSE IF FindAttendance(db, c, d) # {} THEN BaseResp(400, "AttendanceAlreadyExists")
    ELSE Pending

\* what startSession answers once it has the students
StartCreateResponse(sid, students) ==
    IF Len(students) = 0 THEN BaseResp(400, "EmptyRoster")
    ELSE [BaseResp(200, "ok") EXCEPT !.sessionId = sid, !.total = Len(students)]

\* new Date(): not before the createdAt of any session in the registry; only the
\* order of the createdAt values is ever read, so time is counted from the latest
Now(m) ==
    IF DOMAIN m = {} THEN {0}
    ELSE LET latest == CHOOSE x \in {m[k].createdAt : k \in DOMAIN m} :
                          \A k \in DOMAIN m : m[k].createdAt <= x
         IN  {latest, latest + 1}

\* entry of startSession: the class checks and the Attendance.findOne query
\* (the class documents do not change, so the first query that reads shared
\* state is Attendance.findOne); suspends at Student.find
StartEntry(t, c, d) ==
    /\ IF StartCheckResponse(attendanceDb, t, c, d) = Pending
       THEN reqs' = Suspend([IdleReq EXCEPT !.op = "start", !.pc = "findStudents",
                               !.teacherId = t, !.classId = c, !.date = d])
       ELSE UNCHANGED reqs
    /\ UNCHANGED <<activeSessions, attendanceDb, studentDb, nextId,
                   assignedSince, handedOver,
                   iotSession, iotStatus>>

\* a start request arrives; one that passes its checks needs a free handler
\* slot and a session id within the bound
StartSession(t, c, d) ==
    /\ StartCheckResponse(attendanceDb, t, c, d) = Pending
          => /\ CanSuspend
             /\ nextId + InFlight("start") <= MaxSessions
    /\ StartEntry(t, c, d)

\* Student.find is served by the database
StartFindStudents(rec) ==
    /\ rec \in Suspended /\ rec.op = "start" /\ rec.pc = "findStudents"
    /\ reqs' = Resume(rec) (+) SetToBag({[rec EXCEPT
                   !.pc = "create",
                   !.students = FindStudents(studentDb, rec.teacherId)]})
    /\ UNCHANGED <<activeSessions, attendanceDb, studentDb, nextId,
                   assignedSince, handedOver,
                   iotSession, iotStatus>>

\* the handler resumes with the students: the rest of startSession, no await in it
StartCreate(rec) ==
    /\ rec \in Suspended /\ rec.op = "start" /\ rec.pc = "create"
    /\ IF StartCreateResponse(nextId, rec.students).code # 200
       THEN UNCHANGED <<activeSessions, nextId, assignedSince>>
       ELSE /\ \E now \in Now(activeSessions) :
                    activeSessions' =
                      MapSet(EvictActive(activeSessions, rec.teacherId), nextId,
                             NewSession(nextId, rec.classId, rec.date,
                                        rec.teacherId, rec.students, now))
            /\ nextId' = nextId + 1
            /\ assignedSince' = assignedSince \cap DOMAIN activeSessions'
    /\ reqs' = Resume(rec)
    /\ UNCHANGED <<attendanceDb, studentDb, handedOver,
                   iotSession, iotStatus>>

\* ------------------------------------------------------------- stopSession
\* mutant of StopDeactivate: the session stays active while stop writes
StopLeavesActive(s) == [s EXCEPT !.hasStudent = FALSE]

\* session.active = false; session.hasStudent = false
StopDeactivate(s) == [s EXCEPT !.active = FALSE, !.hasStudent = FALSE]

\* mutant of BuildRecords: an unmarked student is defaulted to present
BuildRecordsDefaultPresent(s) ==
    [i \in 1..Len(s.students) |->
        [student |-> s.students[i],
         status  |-> IF s.students[i] \in DOMAIN s.records
                     THEN s.records[s.students[i]] ELSE "present"]]

\* session.students.map(student => ({ student, status: records[student._id] || "absent" }))
BuildRecords(s) ==
    [i \in 1..Len(s.students) |->
        [student |-> s.students[i],
         status  |-> IF s.students[i] \in DOMAIN s.records
                     THEN s.records[s.students[i]] ELSE "absent"]]

\* saveProgress && Object.keys(session.records).length > 0
ShouldSave(saveProgress, s) == saveProgress /\ DOMAIN s.records # {}

\* mutant of UniqueIndexAdmits: the collection has no unique index
NoUniqueIndex(db, c, d) == TRUE

\* the unique index { class: 1, date: 1 } admits the document
UniqueIndexAdmits(db, c, d) == FindAttendance(db, c, d) = {}

\* mutant of PresentCount: every entry is counted as present
PresentCountsAll(records) == Len(records)

\* records.filter(r => r.status === "present").length
PresentCount(records) ==
    Cardinality({i \in 1..Len(records) : records[i].status = "present"})

\* mutant of StopResponse: stopSession does not compare the teacher
StopAnyTeacher(m, sid, t, saveProgress) ==
    IF sid \notin DOMAIN m THEN BaseResp(404, "SessionNotFound")
    ELSE IF ShouldSave(saveProgress, StopDeactivate(m[sid])) THEN Pending
    ELSE BaseResp(200, "ok")

\* what stopSession answers before it reaches Attendance.create
StopResponse(m, sid, t, saveProgress) ==
    IF sid \notin DOMAIN m THEN BaseResp(404, "SessionNotFound")
    ELSE IF m[sid].teacherId # t THEN BaseResp(403, "Unauthorized")
    ELSE IF ShouldSave(saveProgress, StopDeactivate(m[sid])) THEN Pending
    ELSE BaseResp(200, "ok")

\* what stopSession answers after Attendance.create has stored `records`
StopSavedResponse(records) ==
    [BaseResp(200, "ok") EXCEPT
        !.hasSummary = TRUE,
        !.total = Len(records),
        !.present = PresentCount(records),
        !.absent = Len(records) - PresentCount(records)]

\* what the catch block of stopSession answers
StopFailedResponse == BaseResp(500, "ServerError")

\* entry of stopSession up to Attendance.create (or to the response)
StopSession(sid, t, saveProgress) ==
    LET r == StopResponse(activeSessions, sid, t, saveProgress) IN
    IF r.code \in {404, 403}
    THEN UNCHANGED vars
    ELSE LET s == StopDeactivate(activeSessions[sid])
             records == BuildRecords(s)
         IN  IF r = Pending
             THEN /\ CanSuspend
                  /\ activeSessions' = [activeSessions EXCEPT ![sid] = s]
                  /\ reqs' = Suspend([IdleReq EXCEPT !.op = "stop", !.pc = "create",
                                        !.teacherId = t, !.classId = s.classId,
                                        !.date = s.date, !.sessionId = sid,
                                        !.records = records])
                  /\ handedOver' = handedOver \cup {sid}
                  /\ assignedSince' = assignedSince \ {sid}
                  /\ UNCHANGED <<attendanceDb, studentDb, nextId,
                   iotSession, iotStatus>>
             ELSE /\ activeSessions' = MapDelete(activeSessions, sid)
                  /\ assignedSince' = assignedSince \ {sid}
                  /\ UNCHANGED <<attendanceDb, studentDb, nextId, reqs,
                                 handedOver,
                   iotSession, iotStatus>>

\* Attendance.create stores the document
StopWriteOk(rec) ==
    /\ rec \in Suspended /\ rec.op = "stop" /\ rec.pc = "create"
    /\ UniqueIndexAdmits(attendanceDb, rec.classId, rec.date)
    /\ attendanceDb' = Append(attendanceDb,
          [class |-> rec.classId, teacher |-> rec.teacherId, date |-> rec.date,
           records |-> rec.records, session |-> rec.sessionId])
    /\ reqs' = Resume(rec) (+) SetToBag({[rec EXCEPT !.pc = "created"]})
    /\ UNCHANGED <<activeSessions, studentDb, nextId, assignedSince, handedOver,
                   iotSession, iotStatus>>

\* mutant of StopWriteFail: the catch block also drops the session
StopWriteFailDrops(rec) ==
    /\ rec \in Suspended /\ rec.op = "stop" /\ rec.pc = "create"
    /\ reqs' = Resume(rec)
    /\ activeSessions' = [x \in DOMAIN activeSessions \ {rec.sessionId} |-> activeSessions[x]]
    /\ UNCHANGED <<attendanceDb, studentDb, nextId, assignedSince, handedOver,
                   iotSession, iotStatus>>

\* Attendance.create rejects (duplicate key, or the database is unreachable):
\* the catch block answers StopFailedResponse
StopWriteFail(rec) ==
    /\ rec \in Suspended /\ rec.op = "stop" /\ rec.pc = "create"
    /\ reqs' = Resume(rec)
    /\ UNCHANGED <<activeSessions, attendanceDb, studentDb, nextId,
                   assignedSince, handedOver,
                   iotSession, iotStatus>>

\* the handler resumes after Attendance.create: delete the session and answer
\* StopSavedResponse(rec.records)
StopFinish(rec) ==
    /\ rec \in Suspended /\ rec.op = "stop" /\ rec.pc = "created"
    /\ activeSessions' = MapDelete(activeSessions, rec.sessionId)
    /\ reqs' = Resume(rec)
    /\ UNCHANGED <<attendanceDb, studentDb, nextId, assignedSince, handedOver,
                   iotSession, iotStatus>>

\* ------------------------------------------------------- getCurrentStudent
\* mutant of CurrentResponse: position is the array index itself
CurrentPositionFromZero(m, sid) ==
    IF sid \notin DOMAIN m
    THEN BaseResp(200, "no_session")
    ELSE LET s == m[sid] IN
         IF ~s.active
         THEN BaseResp(200, "ended")
         ELSE IF s.currentIndex >= Len(s.students)
         THEN [BaseResp(200, "done") EXCEPT
                 !.hasSummary = TRUE,
                 !.total = Len(s.students),
                 !.present = CountStatus(s.records, "present"),
                 !.absent = CountStatus(s.records, "absent")]
         ELSE IF ~s.hasStudent
         THEN BaseResp(200, "active")
         ELSE [BaseResp(200, "active") EXCEPT
                 !.hasStudent = TRUE,
                 !.student = CurrentOf(s),
                 !.token = MakeToken(sid, CurrentOf(s)),
                 !.position = s.currentIndex,
                 !.total = Len(s.students)]

\* what getCurrentStudent answers
CurrentResponse(m, sid) ==
    IF sid \notin DOMAIN m
    THEN BaseResp(200, "no_session")
    ELSE LET s == m[sid] IN
         IF ~s.active
         THEN BaseResp(200, "ended")
         ELSE IF s.currentIndex >= Len(s.students)
         THEN [BaseResp(200, "done") EXCEPT
                 !.hasSummary = TRUE,
                 !.total = Len(s.students),
                 !.present = CountStatus(s.records, "present"),
                 !.absent = CountStatus(s.records, "absent")]
         ELSE IF ~s.hasStudent
         THEN BaseResp(200, "active")
         ELSE [BaseResp(200, "active") EXCEPT
                 !.hasStudent = TRUE,
                 !.student = CurrentOf(s),
                 !.token = MakeToken(sid, CurrentOf(s)),
                 !.position = s.currentIndex + 1,
                 !.total = Len(s.students)]

\* the handler reads the registry and answers CurrentResponse(activeSessions, sid)
GetCurrentStudent(sid) ==
    /\ CurrentResponse(activeSessions, sid).code = 200
    /\ UNCHANGED vars

\* ---------------------------------------------------------- markAttendance
\* mutant of MarkEffect: the cursor moves on but the outcome is not stored
MarkRecordsNothing(s, studentId, status) ==
    [s EXCEPT !.currentIndex = s.currentIndex + 1, !.hasStudent = FALSE]

\* mutant of MarkEffect: the student stays assigned after the mark
MarkKeepsAssigned(s, studentId, status) ==
    [s EXCEPT !.records = MapSet(s.records, studentId, status),
              !.currentIndex = s.currentIndex + 1]

\* session.records[studentId] = status; session.currentIndex++; session.hasStudent = false
MarkEffect(s, studentId, status) ==
    [s EXCEPT !.records = MapSet(s.records, studentId, status),
              !.currentIndex = s.currentIndex + 1,
              !.hasStudent = FALSE]

\* mutant of MarkError: the token's student is not compared with the current one
MarkErrorNoMatch(m, attendanceId, status) ==
    LET tok == ParseToken(attendanceId) IN
    IF Len(attendanceId) = 0 \/ status = "" THEN "Invalid"
    ELSE IF status \notin Statuses THEN "Invalid"
    ELSE IF tok.sessionId = NoSession \/ tok.studentId = NoStudent THEN "Invalid"
    ELSE IF tok.sessionId \notin DOMAIN m THEN "SessionNotFound"
    ELSE IF ~m[tok.sessionId].active THEN "NotActive"
    ELSE IF ~m[tok.sessionId].hasStudent THEN "NoStudentAssigned"
    ELSE ""

\* the error markAttendance answers with, "" when every check passes
MarkError(m, attendanceId, status) ==
    LET tok == ParseToken(attendanceId) IN
    IF Len(attendanceId) = 0 \/ status = "" THEN "Invalid"
    ELSE IF status \notin Statuses THEN "Invalid"
    ELSE IF tok.sessionId = NoSession \/ tok.studentId = NoStudent THEN "Invalid"
    ELSE IF tok.sessionId \notin DOMAIN m THEN "SessionNotFound"
    ELSE IF ~m[tok.sessionId].active THEN "NotActive"
    ELSE IF ~m[tok.sessionId].hasStudent THEN "NoStudentAssigned"
    ELSE IF CurrentOf(m[tok.sessionId]) # tok.studentId THEN "StudentMismatch"
    ELSE ""

\* mutant of MarkResponse: the last mark is answered like any other
MarkAlwaysWaiting(m, attendanceId, status) ==
    LET err == MarkError(m, attendanceId, status)
        tok == ParseToken(attendanceId)
    IN  IF err # ""
        THEN BaseResp(IF err = "SessionNotFound" THEN 404 ELSE 400, err)
        ELSE LET s == MarkEffect(m[tok.sessionId], tok.studentId, status) IN
             [BaseResp(200, "waiting") EXCEPT
                !.position = s.currentIndex + 1,
                !.total = Len(s.students)]

\* what markAttendance answers
MarkResponse(m, attendanceId, status) ==
    LET err == MarkError(m, attendanceId, status)
        tok == ParseToken(attendanceId)
    IN  IF err # ""
        THEN BaseResp(IF err = "SessionNotFound" THEN 404 ELSE 400, err)
        ELSE LET s == MarkEffect(m[tok.sessionId], tok.studentId, status) IN
             IF s.currentIndex >= Len(s.students)
             THEN [BaseResp(200, "done") EXCEPT
                     !.hasSummary = TRUE,
                     !.total = Len(s.students),
                     !.present = CountStatus(s.records, "present"),
                     !.absent = CountStatus(s.records, "absent")]
             ELSE [BaseResp(200, "waiting") EXCEPT
                     !.position = s.currentIndex + 1,
                     !.total = Len(s.students)]

MarkAttendance(attendanceId, status) ==
    LET tok == ParseToken(attendanceId) IN
    IF MarkError(activeSessions, attendanceId, status) # ""
    THEN UNCHANGED vars
    ELSE /\ activeSessions' = [activeSessions EXCEPT ![tok.sessionId] =
                                  MarkEffect(@, tok.studentId, status)]
         /\ assignedSince' = assignedSince \ {tok.sessionId}
         /\ UNCHANGED <<attendanceDb, studentDb, nextId, reqs, handedOver,
                   iotSession, iotStatus>>

\* ------------------------------------------------------------- nextStudent
\* mutant of AssignEffect: the flag is not set
AssignForgets(s) == s

\* mutant of AssignEffect: assigning also moves the cursor on
AssignAndAdvance(s) == [s EXCEPT !.hasStudent = TRUE, !.currentIndex = s.currentIndex + 1]

\* session.hasStudent = true
AssignEffect(s) == [s EXCEPT !.hasStudent = TRUE]

\* the error nextStudent answers with, "" when every check passes
NextError(m, sid, t) ==
    IF sid \notin DOMAIN m THEN "SessionNotFound"
    ELSE IF m[sid].teacherId # t THEN "Unauthorized"
    ELSE IF ~m[sid].active THEN "NotActive"
    ELSE ""

\* what nextStudent answers
NextResponse(m, sid, t) ==
    LET err == NextError(m, sid, t) IN
    IF err # ""
    THEN BaseResp(IF err = "SessionNotFound" THEN 404
                  ELSE IF err = "Unauthorized" THEN 403 ELSE 400, err)
    ELSE IF m[sid].currentIndex >= Len(m[sid].students)
    THEN [BaseResp(200, "ok") EXCEPT !.isDone = TRUE]
    ELSE [BaseResp(200, "ok") EXCEPT
            !.hasStudent = TRUE,
            !.student = CurrentOf(m[sid]),
            !.position = m[sid].currentIndex + 1,
            !.total = Len(m[sid].students)]

NextStudent(sid, t) ==
    IF ~NextResponse(activeSessions, sid, t).hasStudent
    THEN UNCHANGED vars
    ELSE /\ activeSessions' = [activeSessions EXCEPT ![sid] =
                                  IF @.hasStudent THEN @ ELSE AssignEffect(@)]
         /\ assignedSince' = assignedSince \cup {sid}
         /\ UNCHANGED <<attendanceDb, studentDb, nextId, reqs, handedOver,
                   iotSession, iotStatus>>

\* -------------------------------------------------------- getSessionStatus
\* what getSessionStatus answers
StatusResponse(m, sid, t) ==
    IF sid \notin DOMAIN m
    THEN BaseResp(200, "not_found")
    ELSE IF m[sid].teacherId # t
    THEN BaseResp(403, "Unauthorized")
    ELSE LET s == m[sid]
             presentCount == CountStatus(s.records, "present")
             absentCount  == CountStatus(s.records, "absent")
         IN  ("active" :> s.active
              @@ "pending" :> (Len(s.students) - presentCount - absentCount))
             @@ [BaseResp(200, "ok") EXCEPT
                   !.sessionId = sid,
                   !.hasStudent = s.hasStudent,
                   !.hasSummary = TRUE,
                   !.total = Len(s.students),
                   !.position = s.currentIndex,
                   !.student = IF s.active /\ s.currentIndex < Len(s.students)
                               THEN CurrentOf(s) ELSE NoStudent,
                   !.present = presentCount,
                   !.absent = absentCount]

\* the handler reads the registry and answers StatusResponse(activeSessions, sid, t)
GetSessionStatus(sid, t) ==
    /\ StatusResponse(activeSessions, sid, t).code \in {200, 403}
    /\ UNCHANGED vars

\* -------------------------------------------------------- getActiveSession
\* mutant of ActiveSessionResponse: the first session of the registry is named
OldestSessionResponse(m) ==
    IF DOMAIN m = {} THEN BaseResp(200, "none")
    ELSE [BaseResp(200, "active") EXCEPT
             !.sessionId = CHOOSE k \in DOMAIN m : \A j \in DOMAIN m : k <= j]

\* for (const [sessionId, session] of activeSessions): the Map is walked in
\* insertion order, which is the order of the session ids; best is the session
\* picked so far (NoSession for null)
RECURSIVE ScanActive(_, _, _)
ScanActive(m, ids, best) ==
    IF ids = {} THEN best
    ELSE LET sid == CHOOSE k \in ids : \A j \in ids : k <= j
             pick == /\ m[sid].active
                     /\ \/ best = NoSession
                        \/ m[sid].createdAt > m[best].createdAt
         IN  ScanActive(m, ids \ {sid}, IF pick THEN sid ELSE best)

ActiveSessionResponse(m) ==
    LET best == ScanActive(m, DOMAIN m, NoSession)
    IN  IF best = NoSession THEN BaseResp(200, "none")
        ELSE [BaseResp(200, "active") EXCEPT !.sessionId = best]

\* the handler reads the registry and answers ActiveSessionResponse(activeSessions)
GetActiveSession ==
    /\ ActiveSessionResponse(activeSessions).code = 200
    /\ UNCHANGED vars

\* ------------------------------------------------------------- skipStudent
\* mutant of SkipEffect: the cursor jumps over the next student as well
SkipTwo(s) ==
    [s EXCEPT !.records = MapSet(s.records, s.students[s.currentIndex + 1], "absent"),
              !.currentIndex = s.currentIndex + 2,
              !.hasStudent = FALSE]

\* mutant of SkipEffect: the skipped student is recorded as present
SkipMarksPresent(s) ==
    [s EXCEPT !.records = MapSet(s.records, s.students[s.currentIndex + 1], "present"),
              !.currentIndex = s.currentIndex + 1,
              !.hasStudent = FALSE]

\* session.records[currentStudent._id] = "absent"; session.currentIndex++; session.hasStudent = false
SkipEffect(s) ==
    [s EXCEPT !.records = MapSet(s.records, CurrentOf(s), "absent"),
              !.currentIndex = s.currentIndex + 1,
              !.hasStudent = FALSE]

\* mutant of SkipError: skipStudent does not look at session.active
SkipErrorIgnoresActive(m, sid, t) ==
    IF sid \notin DOMAIN m THEN "SessionNotFound"
    ELSE IF m[sid].teacherId # t THEN "Unauthorized"
    ELSE IF m[sid].currentIndex >= Len(m[sid].students) THEN "NoMoreStudents"
    ELSE ""

\* the error skipStudent answers with, "" when every check passes
SkipError(m, sid, t) ==
    IF sid \notin DOMAIN m THEN "SessionNotFound"
    ELSE IF m[sid].teacherId # t THEN "Unauthorized"
    ELSE IF ~m[sid].active THEN "NotActive"
    ELSE IF m[sid].currentIndex >= Len(m[sid].students) THEN "NoMoreStudents"
    ELSE ""

\* what skipStudent answers
SkipResponse(m, sid, t) ==
    LET err == SkipError(m, sid, t) IN
    IF err # ""
    THEN BaseResp(IF err = "SessionNotFound" THEN 404
                  ELSE IF err = "Unauthorized" THEN 403 ELSE 400, err)
    ELSE LET s == SkipEffect(m[sid]) IN
         [BaseResp(200, "ok") EXCEPT
            !.isDone = (s.currentIndex >= Len(s.students)),
            !.student = IF s.currentIndex >= Len(s.students)
                        THEN NoStudent ELSE CurrentOf(s)]

\* mutant of SkipStudent: the checks on teacher and active come after the update
SkipThenCheck(sid, t) ==
    IF sid \notin DOMAIN activeSessions
       \/ activeSessions[sid].currentIndex >= Len(activeSessions[sid].students)
    THEN UNCHANGED vars
    ELSE /\ activeSessions' = [activeSessions EXCEPT ![sid] = SkipEffect(@)]
         /\ assignedSince' = assignedSince \ {sid}
         /\ UNCHANGED <<attendanceDb, studentDb, nextId, reqs, handedOver,
                   iotSession, iotStatus>>

SkipStudent(sid, t) ==
    IF SkipError(activeSessions, sid, t) # ""
    THEN UNCHANGED vars
    ELSE /\ activeSessions' = [activeSessions EXCEPT ![sid] = SkipEffect(@)]
         /\ assignedSince' = assignedSince \ {sid}
         /\ UNCHANGED <<attendanceDb, studentDb, nextId, reqs, handedOver,
                   iotSession, iotStatus>>

\* ------------------------------------------------------------ collaborators
\* student.controller addStudent: Student.create (students are entered in roll order)
AddStudent(s) ==
    /\ s \notin studentDb
    /\ \A x \in Students : x < s => x \in studentDb
    /\ studentDb' = studentDb \cup {s}
    /\ UNCHANGED <<activeSessions, attendanceDb, nextId, reqs,
                   assignedSince, handedOver,
                   iotSession, iotStatus>>

\* attendance.controller markAttendance: Attendance.create under the unique index
ManualAttendance(c, d) ==
    /\ UniqueIndexAdmits(attendanceDb, c, d)
    /\ attendanceDb' = Append(attendanceDb,
          [class |-> c, teacher |-> ClassOwner(c), date |-> d,
           records |-> << >>, session |-> NoSession])
    /\ UNCHANGED <<activeSessions, studentDb, nextId, reqs,
                   assignedSince, handedOver,
                   iotSession, iotStatus>>

\* ------------------------------------------------------------ specification
\* what a device may send as attendanceId: nothing, a token, or a token cut short
AttendanceIds ==
    {<< >>} \cup {<<sid>> : sid \in SessionIds}
            \cup {MakeToken(sid, stu) : sid \in SessionIds, stu \in Students}
StatusInputs == Statuses \cup {"late", ""}

Next ==
    \/ \E t \in Teachers, c \in Classes \cup {NoClass}, d \in Dates : StartSession(t, c, d)
    \/ \E rec \in Suspended : StartFindStudents(rec)
    \/ \E rec \in Suspended : StartCreate(rec)
    \/ \E sid \in SessionIds, t \in Teachers, save \in BOOLEAN : StopSession(sid, t, save)
    \/ \E rec \in Suspended : StopWriteOk(rec)
    \/ \E rec \in Suspended : StopWriteFail(rec)
    \/ \E rec \in Suspended : StopFinish(rec)
    \/ \E sid \in SessionIds : GetCurrentStudent(sid)
    \/ \E a \in AttendanceIds, st \in StatusInputs : MarkAttendance(a, st)
    \/ \E sid \in SessionIds, t \in Teachers : NextStudent(sid, t)
    \/ \E sid \in SessionIds, t \in Teachers : GetSessionStatus(sid, t)
    \/ \E sid \in SessionIds, t \in Teachers : SkipStudent(sid, t)
    \/ \E s \in Students : AddStudent(s)
    \/ \E c \in Classes, d \in Dates : ManualAttendance(c, d)
    \/ GetActiveSession

Spec == Init /\ [][Next]_vars

\* A run in which the start requests arrive one at a time and nobody calls
\* stop: three session ids are handed out, so that a start can evict a session
\* of its teacher while a session of the other teacher is in the registry.
SerialSessionIds == 1..MaxSerialIds

StartSessionSerial(t, c, d) ==
    /\ StartCheckResponse(attendanceDb, t, c, d) = Pending
          => /\ BagCardinality(reqs) = 0
             /\ nextId <= MaxSerialIds
    /\ StartEntry(t, c, d)

NextSerial ==
    \/ \E t \in Teachers, c \in Classes \cup {NoClass}, d \in Dates :
          StartSessionSerial(t, c, d)
    \/ \E rec \in Suspended : StartFindStudents(rec)
    \/ \E rec \in Suspended : StartCreate(rec)
    \/ \E sid \in SerialSessionIds, stu \in Students, st \in Statuses :
          MarkAttendance(MakeToken(sid, stu), st)
    \/ \E sid \in SerialSessionIds, t \in Teachers : NextStudent(sid, t)
    \/ \E sid \in SerialSessionIds, t \in Teachers : SkipStudent(sid, t)
    \/ \E s \in Students : AddStudent(s)

SpecSerial == Init /\ [][NextSerial]_vars

\* ---------------------------------------------------------------- the router
\* routes/iot.routes.js: the routes of the IoT router, each with the handler it
\* calls and whether the auth middleware stands before it
IotRoutes ==
    {[method |-> "POST", path |-> "/session/start", auth |-> TRUE,
      handler |-> "startSession"],
     [method |-> "POST", path |-> "/session/stop", auth |-> TRUE,
      handler |-> "stopSession"],
     [method |-> "GET", path |-> "/session/status/:sessionId", auth |-> TRUE,
      handler |-> "getSessionStatus"],
     [method |-> "POST", path |-> "/skip", auth |-> TRUE,
      handler |-> "skipStudent"],
     [method |-> "GET", path |-> "/current/:sessionId", auth |-> FALSE,
      handler |-> "getCurrentStudent"],
     [method |-> "POST", path |-> "/mark", auth |-> FALSE,
      handler |-> "markAttendance"]}

\* ------------------------------------------------------ the attendance page
\* handleStartIoTSession: the answer of a successful start reaches the page of
\* the teacher, which keeps it in iotSession
PageStart(sid) ==
    /\ iotSession = NoIotSession
    /\ sid \in DOMAIN activeSessions
    /\ iotSession' = [sessionId |-> sid, teacherId |-> activeSessions[sid].teacherId]
    /\ UNCHANGED <<activeSessions, attendanceDb, studentDb, nextId, reqs,
                   assignedSince, handedOver, iotStatus>>

\* what setIotStatus keeps of an answer of getSessionStatus
PolledStatus(r) ==
    [polled |-> TRUE, hasStudent |-> r.hasStudent, currentIndex |-> r.position,
     totalStudents |-> r.total]

\* the poll interval: getSessionStatus, then setIotStatus; an answer with an
\* error status is thrown by the http client and leaves iotStatus as it is
PagePoll ==
    /\ iotSession # NoIotSession
    /\ LET r == StatusResponse(activeSessions, iotSession.sessionId,
                               iotSession.teacherId)
       IN  iotStatus' = IF r.code = 200 THEN PolledStatus(r) ELSE iotStatus
    /\ UNCHANGED <<activeSessions, attendanceDb, studentDb, nextId, reqs,
                   assignedSince, handedOver, iotSession>>

\* iotStatus && !iotStatus.hasStudent && iotStatus.currentIndex < iotStatus.totalStudents
AutoNextDue ==
    /\ iotSession # NoIotSession
    /\ iotStatus.polled
    /\ ~iotStatus.hasStudent
    /\ iotStatus.currentIndex < iotStatus.totalStudents

\* mutant of PageAutoNext: the loop calls skip where it should call next
PageAutoSkip ==
    /\ AutoNextDue
    /\ SkipStudent(iotSession.sessionId, iotSession.teacherId)

\* the auto-next interval: calls nextStudent when the last polled status shows
\* no student assigned and students left
PageAutoNext ==
    /\ AutoNextDue
    /\ NextStudent(iotSession.sessionId, iotSession.teacherId)

\* A run with the page of one teacher open and its auto-next loop switched on,
\* next to the device and to manual calls of both teachers; the start requests
\* arrive one at a time.
NextAuto ==
    \/ \E t \in Teachers, c \in Classes \cup {NoClass}, d \in Dates :
          /\ BagCardinality(reqs) = 0
          /\ StartSession(t, c, d)
    \/ \E rec \in Suspended : StartFindStudents(rec)
    \/ \E rec \in Suspended : StartCreate(rec)
    \/ \E sid \in SessionIds, t \in Teachers, save \in BOOLEAN : StopSession(sid, t, save)
    \/ \E rec \in Suspended : StopWriteOk(rec)
    \/ \E rec \in Suspended : StopWriteFail(rec)
    \/ \E rec \in Suspended : StopFinish(rec)
    \/ \E sid \in SessionIds : GetCurrentStudent(sid)
    \/ \E sid \in SessionIds, stu \in Students, st \in Statuses :
          MarkAttendance(MakeToken(sid, stu), st)
    \/ \E sid \in SessionIds, t \in Teachers : NextStudent(sid, t)
    \/ \E sid \in SessionIds, t \in Teachers : SkipStudent(sid, t)
    \/ \E s \in Students : AddStudent(s)
    \/ \E sid \in SessionIds : PageStart(sid)
    \/ PagePoll
    \/ PageAutoNext

SpecAuto == Init /\ [][NextAuto]_vars

\* --------------------------------------------------- device and operator
\* the operator (or the auto-next loop) calls next for a session that shows no
\* student
OperatorAssign(sid) ==
    /\ sid \in DOMAIN activeSessions
    /\ ~activeSessions[sid].hasStudent
    /\ NextStudent(sid, activeSessions[sid].teacherId)

\* the device has polled current, was shown a student, and marks it with the
\* attendanceId of that answer
DeviceMark(sid, status) ==
    /\ CurrentResponse(activeSessions, sid).hasStudent
    /\ MarkAttendance(CurrentResponse(activeSessions, sid).token, status)

\* A run in which no session is stopped: operator and device work through the
\* rosters, and a session ends only by being superseded by a new start of its
\* teacher.  Operator and device keep calling: weak fairness on both.
NextLive ==
    \/ \E t \in Teachers, c \in Classes, d \in Dates :
          /\ BagCardinality(reqs) = 0
          /\ StartSession(t, c, d)
    \/ \E rec \in Suspended : StartFindStudents(rec)
    \/ \E rec \in Suspended : StartCreate(rec)
    \/ \E s \in Students : AddStudent(s)
    \/ \E sid \in SessionIds : OperatorAssign(sid)
    \/ \E sid \in SessionIds : GetCurrentStudent(sid)
    \/ \E sid \in SessionIds, st \in Statuses : DeviceMark(sid, st)

SpecLive ==
    /\ Init /\ [][NextLive]_vars
    /\ \A sid \in SessionIds :
          /\ WF_vars(OperatorAssign(sid))
          /\ WF_vars(\E st \in Statuses : DeviceMark(sid, st))

\* ================================================================== claims
Registered == DOMAIN activeSessions
\* the sessions that are in the registry before and after a step
Kept == DOMAIN activeSessions \cap DOMAIN activeSessions'

\* C1: in every reachable state, whatever the interleaving of start and stop
\* requests, at most one session of a teacher has active = TRUE.
C1_SingleActivePerTeacher ==
    \A a \in Registered, b \in Registered :
        (/\ activeSessions[a].active
         /\ activeSessions[b].active
         /\ activeSessions[a].teacherId = activeSessions[b].teacherId) => a = b

\* two start requests of one teacher have both passed their checks and both wait
\* to insert their session
C1_Witness ==
    \E rec \in Suspended :
        rec.op = "start" /\ rec.pc = "create" /\ CopiesIn(rec, reqs) >= 2

\* C2: current shows a student (student fields, token) only if an assign has
\* succeeded since the session was started and since its last cursor advance.
C2_CurrentNeedsAssign ==
    \A sid \in SessionIds :
        LET r == CurrentResponse(activeSessions, sid) IN
        (r.hasStudent \/ r.student # NoStudent \/ r.token # << >>)
            => sid \in assignedSince

\* after an advance and a new assign, current shows the next student
C2_Witness ==
    \E sid \in Registered :
        /\ activeSessions[sid].currentIndex >= 1
        /\ CurrentResponse(activeSessions, sid).hasStudent

\* C3: an outcome is recorded only while the session is ASSIGNED and only for
\* roster[cursor]; a skip while no student is assigned is refused with
\* NoStudentAssigned and leaves the session as it was.
C3_OutcomeOnlyWhenAssigned ==
    [][/\ \A sid \in Kept :
            activeSessions'[sid].records # activeSessions[sid].records
               => /\ activeSessions[sid].active
                  /\ activeSessions[sid].hasStudent
                  /\ \E v \in Statuses :
                        activeSessions'[sid].records =
                           MapSet(activeSessions[sid].records,
                                  CurrentOf(activeSessions[sid]), v)
       /\ \A sid \in Registered, t \in Teachers :
            (/\ activeSessions[sid].teacherId = t
             /\ activeSessions[sid].active
             /\ ~activeSessions[sid].hasStudent
             /\ activeSessions[sid].currentIndex < Len(activeSessions[sid].students))
               => /\ SkipResponse(activeSessions, sid, t).kind = "NoStudentAssigned"
                  /\ (SkipStudent(sid, t) => UNCHANGED activeSessions)
      ]_vars

\* C4: repeated assign calls with no advance between them all answer the same
\* student, roster[cursor]; none changes cursor or outcomes, and only the
\* first changes assigned.
C4_AssignIdempotent ==
    [][/\ \A sid \in Registered, t \in Teachers :
            (NextStudent(sid, t) /\ NextError(activeSessions, sid, t) = "")
               => LET s  == activeSessions[sid]
                      s2 == activeSessions'[sid]
                      r  == NextResponse(activeSessions, sid, t)
                  IN  /\ s2.currentIndex = s.currentIndex
                      /\ s2.records = s.records
                      /\ s.hasStudent => s2 = s
                      /\ s.currentIndex < Len(s.students)
                            => /\ r.student = CurrentOf(s)
                               /\ s2 = [s EXCEPT !.hasStudent = TRUE]
                      /\ NextResponse(activeSessions', sid, t) = r
       /\ \A sid \in Kept :
            (/\ activeSessions[sid].active
             /\ activeSessions'[sid].active
             /\ activeSessions'[sid].currentIndex = activeSessions[sid].currentIndex)
               => NextResponse(activeSessions', sid, activeSessions[sid].teacherId).student
                  = NextResponse(activeSessions, sid, activeSessions[sid].teacherId).student
      ]_vars

\* a student is assigned after an earlier advance: a further assign repeats it
C4_Witness ==
    \E sid \in Registered :
        /\ activeSessions[sid].active
        /\ activeSessions[sid].hasStudent
        /\ activeSessions[sid].currentIndex >= 1

\* the step is a successful mark or skip on session sid
Advances(sid) ==
    \/ \E stu \in Students, st \in Statuses :
          /\ MarkError(activeSessions, MakeToken(sid, stu), st) = ""
          /\ MarkAttendance(MakeToken(sid, stu), st)
    \/ \E t \in Teachers :
          /\ SkipError(activeSessions, sid, t) = ""
          /\ SkipStudent(sid, t)

\* C5: the cursor of a session never decreases or resets; it grows by exactly
\* one on every successful mark or skip and no other call changes it.
C5_CursorMonotone ==
    [][/\ \A sid \in Kept :
            /\ activeSessions'[sid].currentIndex \in
                  {activeSessions[sid].currentIndex,
                   activeSessions[sid].currentIndex + 1}
            /\ (activeSessions'[sid].currentIndex = activeSessions[sid].currentIndex + 1)
                  <=> Advances(sid)
       /\ \A sid \in DOMAIN activeSessions' \ Registered :
            /\ sid = nextId /\ nextId' > sid
            /\ activeSessions'[sid].currentIndex = 0
      ]_vars

\* a session whose cursor has advanced twice
C5_Witness ==
    \E sid \in Registered : activeSessions[sid].currentIndex >= 2


\* the students session s has passed: those with a recorded outcome
Passed(s) == DOMAIN s.records

\* C6 as claimed: a mark with the token of a student the cursor has passed is
\* refused with StudentMismatch.
C6_StaleTokenIsMismatch ==
    \A sid \in Registered, stu \in Students, st \in Statuses :
        stu \in Passed(activeSessions[sid])
            => MarkResponse(activeSessions, MakeToken(sid, stu), st).kind
                  = "StudentMismatch"

\* C6, amended: such a mark is refused, with NotActive once the session is
\* stopped, else NoStudentAssigned while no student is assigned, else
\* StudentMismatch; no step overwrites or removes the outcome of a passed student.
C6_StaleTokenRefused ==
    /\ [](\A sid \in Registered, stu \in Students, st \in Statuses :
            stu \in Passed(activeSessions[sid])
               => MarkError(activeSessions, MakeToken(sid, stu), st) =
                     IF ~activeSessions[sid].active THEN "NotActive"
                     ELSE IF ~activeSessions[sid].hasStudent THEN "NoStudentAssigned"
                     ELSE "StudentMismatch")
    /\ [][\A sid \in Kept : \A stu \in Passed(activeSessions[sid]) :
            /\ stu \in Passed(activeSessions'[sid])
            /\ activeSessions'[sid].records[stu] = activeSessions[sid].records[stu]
         ]_vars

\* a student has been passed and the next one is assigned: the old token is stale
C6_Witness ==
    \E sid \in Registered, stu \in Students :
        /\ stu \in Passed(activeSessions[sid])
        /\ activeSessions[sid].hasStudent
        /\ MarkError(activeSessions, MakeToken(sid, stu), "present") = "StudentMismatch"

\* stopSession hands exactly the document `recs` of session s to Attendance.create
HandsOver(sid, s, recs) ==
    \E rec \in BagToSet(reqs') :
        /\ reqs' = reqs (+) SetToBag({rec})
        /\ rec.op = "stop" /\ rec.pc = "create" /\ rec.sessionId = sid
        /\ rec.classId = s.classId /\ rec.date = s.date
        /\ rec.records = recs

\* one entry per roster member: the recorded outcome, else absent
FullRecords(s) ==
    [i \in 1..Len(s.students) |->
        [student |-> s.students[i],
         status  |-> IF s.students[i] \in Passed(s)
                     THEN s.records[s.students[i]] ELSE "absent"]]

\* C7 as claimed: stop(persist) by the owner on a session in which some student
\* has no outcome (possibly none has) hands the store one record for
\* (classId, date) with one entry per roster member.
C7_StopPersistsAlways ==
    [][\A sid \in Registered :
          LET s == activeSessions[sid] IN
          (/\ StopSession(sid, s.teacherId, TRUE)
           /\ \E i \in 1..Len(s.students) : s.students[i] \notin Passed(s))
             => HandsOver(sid, s, FullRecords(s))
      ]_vars

\* C7, amended: it does so when at least one outcome is recorded; with no
\* outcome recorded it hands nothing to the store and drops the session.
C7_StopPersistsSome ==
    [][\A sid \in Registered :
          LET s == activeSessions[sid] IN
          (/\ StopSession(sid, s.teacherId, TRUE)
           /\ \E i \in 1..Len(s.students) : s.students[i] \notin Passed(s))
             => IF Passed(s) # {}
                THEN HandsOver(sid, s, FullRecords(s))
                ELSE /\ reqs' = reqs
                     /\ attendanceDb' = attendanceDb
                     /\ sid \notin DOMAIN activeSessions'
      ]_vars

\* a stop has handed over a record in which an unmarked student is absent
C7_Witness ==
    \E rec \in Suspended :
        /\ rec.op = "stop" /\ rec.sessionId \in Registered
        /\ \E i \in 1..Len(rec.records) :
              /\ rec.records[i].student \notin Passed(activeSessions[rec.sessionId])
              /\ rec.records[i].status = "absent"

\* the documents of session sid in the Attendance collection
RecordsOf(sid) == {i \in 1..Len(attendanceDb) : attendanceDb[i].session = sid}

\* C8 as claimed: of all the stop(persist) calls on a session at most one hands
\* its outcomes to the store, and at most one record results.
C8_HandedOverOnce ==
    /\ [](\A sid \in SessionIds : Cardinality(RecordsOf(sid)) <= 1)
    /\ [][\A sid \in Registered :
            (/\ StopSession(sid, activeSessions[sid].teacherId, TRUE)
             /\ StopResponse(activeSessions, sid, activeSessions[sid].teacherId, TRUE)
                   = Pending)
               => sid \notin handedOver
         ]_vars

\* C8, amended: several of the calls may hand the outcomes to the store, but
\* at most one record results for the session, and for its (class, date).
C8_PersistedOnce ==
    /\ \A sid \in SessionIds : Cardinality(RecordsOf(sid)) <= 1
    /\ \A i \in 1..Len(attendanceDb), j \in 1..Len(attendanceDb) :
          (/\ attendanceDb[i].class = attendanceDb[j].class
           /\ attendanceDb[i].date = attendanceDb[j].date) => i = j

\* the record of a session is stored while another stop of that session still
\* waits for its own write
C8_Witness ==
    \E rec \in Suspended :
        /\ rec.op = "stop" /\ rec.pc = "create"
        /\ RecordsOf(rec.sessionId) # {}


\* every call that names session sid is answered "no such session"
AnsweredNotFound(sid) ==
    /\ CurrentResponse(activeSessions, sid).kind = "no_session"
    /\ \A t \in Teachers :
          /\ StatusResponse(activeSessions, sid, t).kind = "not_found"
          /\ NextResponse(activeSessions, sid, t).kind = "SessionNotFound"
          /\ SkipResponse(activeSessions, sid, t).kind = "SessionNotFound"
          /\ \A save \in BOOLEAN :
                StopResponse(activeSessions, sid, t, save).kind = "SessionNotFound"
    /\ \A stu \in Students, st \in Statuses :
          MarkResponse(activeSessions, MakeToken(sid, stu), st).kind = "SessionNotFound"

\* C9: once a stop (saving or not) has answered success the session is out of
\* the registry for good: every later stop, assign, skip and mark that names
\* it answers SessionNotFound, status not_found and current no_session.
C9_StoppedIsGone ==
    /\ [](\A sid \in SessionIds \ Registered : AnsweredNotFound(sid))
    /\ [][/\ \A sid \in Registered, t \in Teachers, save \in BOOLEAN :
               (/\ StopSession(sid, t, save)
                /\ StopResponse(activeSessions, sid, t, save).code = 200)
                  => sid \notin DOMAIN activeSessions'
          /\ \A rec \in Suspended :
               (/\ StopFinish(rec)
                /\ StopSavedResponse(rec.records).code = 200)
                  => rec.sessionId \notin DOMAIN activeSessions'
          /\ \A sid \in SessionIds \ Registered :
               sid < nextId => sid \notin DOMAIN activeSessions'
         ]_vars

\* a session was saved by a stop that has answered, and is gone
C9_Witness ==
    \E sid \in SessionIds \ Registered :
        /\ RecordsOf(sid) # {}
        /\ \A rec \in Suspended : rec.sessionId # sid

\* stopSession has reached Attendance.create for session sid in this step
StopSuspends(sid) ==
    /\ StopSession(sid, activeSessions[sid].teacherId, TRUE)
    /\ StopResponse(activeSessions, sid, activeSessions[sid].teacherId, TRUE) = Pending

\* C10 as claimed: when the write of a stop(persist) fails, the session is in
\* the registry as it was before the call (active, assigned, cursor, outcomes,
\* roster).  Any pending write can fail and nothing restores a field, so the
\* call must not have changed the session when it reaches the write, and the
\* failure must leave it in the registry as it is.
C10_FailedStopLeavesIntact ==
    [][/\ \A sid \in Registered :
            StopSuspends(sid) => activeSessions'[sid] = activeSessions[sid]
       /\ \A rec \in Suspended :
            StopWriteFail(rec)
               => /\ rec.sessionId \in DOMAIN activeSessions'
                  /\ activeSessions' = activeSessions
      ]_vars

\* C10, amended: the session keeps its cursor, outcomes and roster but is
\* inactive and unassigned from the moment stop reaches the write; the failure
\* itself changes nothing in the registry, and while the session is there a
\* further stop(persist) of the owner is accepted and hands over the same records.
C10_FailedStopKeepsOutcomes ==
    [][/\ \A sid \in Registered :
            StopSuspends(sid)
               => activeSessions'[sid] =
                     [activeSessions[sid] EXCEPT !.active = FALSE, !.hasStudent = FALSE]
       /\ \A rec \in Suspended :
            StopWriteFail(rec)
               => /\ activeSessions' = activeSessions
                  /\ attendanceDb' = attendanceDb
                  /\ rec.sessionId \in Registered
                        => LET s == activeSessions'[rec.sessionId] IN
                           /\ ~s.active /\ ~s.hasStudent
                           /\ FullRecords(s) = rec.records
                           /\ StopResponse(activeSessions', rec.sessionId,
                                           s.teacherId, TRUE) = Pending
      ]_vars

\* a write has failed: the session is registered, stopped, handed over, and no
\* stop is waiting for it
C10_Witness ==
    \E sid \in Registered :
        /\ ~activeSessions[sid].active
        /\ sid \in handedOver
        /\ \A rec \in Suspended : rec.sessionId # sid

\* a stop of session sid is suspended at (or has just passed) Attendance.create
StopInFlight(sid) == \E rec \in Suspended : rec.op = "stop" /\ rec.sessionId = sid

\* C11: while a stop of a session is in flight, an assign, mark or skip on that
\* session is refused (session not active, or not found once it is deleted) and
\* changes no field of it; what the stop hands to the store is what the session
\* holds, so every mark that succeeded before the stop is in the stored record.
C11_RaceLosesGracefully ==
    /\ [](\A rec \in Suspended : rec.op = "stop" =>
            LET sid == rec.sessionId IN
            IF sid \in Registered
            THEN LET s == activeSessions[sid] IN
                 /\ ~s.active
                 /\ rec.records = FullRecords(s)
                 /\ NextResponse(activeSessions, sid, s.teacherId).kind = "NotActive"
                 /\ SkipResponse(activeSessions, sid, s.teacherId).kind = "NotActive"
                 /\ \A stu \in Students, st \in Statuses :
                       MarkResponse(activeSessions, MakeToken(sid, stu), st).kind
                          = "NotActive"
            ELSE /\ \A t \in Teachers :
                       /\ NextResponse(activeSessions, sid, t).kind = "SessionNotFound"
                       /\ SkipResponse(activeSessions, sid, t).kind = "SessionNotFound"
                 /\ \A stu \in Students, st \in Statuses :
                       MarkResponse(activeSessions, MakeToken(sid, stu), st).kind
                          = "SessionNotFound")
    /\ [][/\ \A sid \in Kept :
               StopInFlight(sid) => activeSessions'[sid] = activeSessions[sid]
          /\ \A rec \in Suspended :
               StopWriteOk(rec)
                  => /\ Len(attendanceDb') = Len(attendanceDb) + 1
                     /\ attendanceDb'[Len(attendanceDb')].records = rec.records
                     /\ attendanceDb'[Len(attendanceDb')].session = rec.sessionId
         ]_vars

\* a mark was acknowledged as present, then a stop reached the write while the
\* roster is not exhausted: an assign or mark arriving now meets the stop in flight
C11_Witness ==
    \E rec \in Suspended :
        /\ rec.op = "stop" /\ rec.pc = "create" /\ rec.sessionId \in Registered
        /\ activeSessions[rec.sessionId].currentIndex
              < Len(activeSessions[rec.sessionId].students)
        /\ \E i \in 1..Len(rec.records) : rec.records[i].status = "present"

\* C12: in every session, hasStudent implies currentIndex < students.length, so
\* no handler reads the roster at or past its end: on an exhausted active
\* session a mark is refused with "no student assigned", current answers done
\* and assign answers isDone.
C12_AssignedWithinRoster ==
    \A sid \in Registered :
        LET s == activeSessions[sid] IN
        /\ s.hasStudent => s.currentIndex < Len(s.students)
        /\ s.currentIndex <= Len(s.students)
        /\ (s.active /\ s.currentIndex >= Len(s.students))
              => /\ \A stu \in Students, st \in Statuses :
                       MarkResponse(activeSessions, MakeToken(sid, stu), st)
                          = BaseResp(400, "NoStudentAssigned")
                 /\ CurrentResponse(activeSessions, sid).kind = "done"
                 /\ NextResponse(activeSessions, sid, s.teacherId).isDone
                 /\ NextResponse(activeSessions, sid, s.teacherId).code = 200

\* an active session whose last student was marked by the device: exhausted
C12_Witness ==
    \E sid \in Registered :
        LET s == activeSessions[sid] IN
        /\ s.active
        /\ s.currentIndex = Len(s.students)
        /\ s.records[s.students[Len(s.students)]] = "present"

\* the preconditions of mark as the claim states them: the token's session
\* exists, is active, is assigned, and the token's student is roster[cursor]
MarkAccepted(m, attendanceId) ==
    LET tok == ParseToken(attendanceId) IN
    /\ tok.sessionId \in DOMAIN m
    /\ m[tok.sessionId].active
    /\ m[tok.sessionId].hasStudent
    /\ m[tok.sessionId].currentIndex < Len(m[tok.sessionId].students)
    /\ m[tok.sessionId].students[m[tok.sessionId].currentIndex + 1] = tok.studentId

\* C13: a mark with outcome present or absent succeeds exactly when the
\* token's session exists, is active, is assigned and the token's student is
\* roster[cursor]; then, in one step, it records the outcome, moves the cursor
\* by one and clears assigned, answering done when the cursor has reached the
\* roster size and waiting otherwise; a mark that fails changes nothing.
C13_MarkContract ==
    /\ [](\A a \in AttendanceIds, st \in Statuses :
            (MarkResponse(activeSessions, a, st).code = 200)
               <=> MarkAccepted(activeSessions, a))
    /\ [][(activeSessions' # activeSessions) =>
          \A a \in AttendanceIds, st \in Statuses :
            MarkAttendance(a, st) =>
               IF MarkAccepted(activeSessions, a)
               THEN LET sid == ParseToken(a).sessionId
                        stu == ParseToken(a).studentId
                        s   == activeSessions[sid]
                        s2  == activeSessions'[sid]
                    IN  /\ DOMAIN activeSessions' = DOMAIN activeSessions
                        /\ \A x \in Registered \ {sid} :
                              activeSessions'[x] = activeSessions[x]
                        /\ s2 = [s EXCEPT
                                   !.records = [k \in DOMAIN s.records \cup {stu} |->
                                                  IF k = stu THEN st ELSE s.records[k]],
                                   !.currentIndex = s.currentIndex + 1,
                                   !.hasStudent = FALSE]
                        /\ MarkResponse(activeSessions, a, st).kind =
                              IF s2.currentIndex = Len(s2.students)
                              THEN "done" ELSE "waiting"
               ELSE UNCHANGED vars
         ]_vars

\* the device has marked a student present and the roster is not exhausted:
\* the mark was answered waiting
C13_Witness ==
    \E sid \in Registered :
        LET s == activeSessions[sid] IN
        /\ s.active /\ ~s.hasStudent
        /\ s.currentIndex >= 1 /\ s.currentIndex < Len(s.students)
        /\ s.records[s.students[s.currentIndex]] = "present"

\* C14: an assign, mark or skip that answers an error (unknown session, wrong
\* teacher, inactive session, no student assigned, student mismatch, invalid
\* status, malformed token) leaves every field of every session unchanged:
\* a step of one of them that changes the registry has answered success.
C14_ErrorsChangeNothing ==
    [][(activeSessions' # activeSessions) =>
          /\ \A a \in AttendanceIds, st \in StatusInputs :
               MarkAttendance(a, st) => MarkResponse(activeSessions, a, st).code = 200
          /\ \A sid \in SessionIds, t \in Teachers :
               /\ NextStudent(sid, t) => NextResponse(activeSessions, sid, t).code = 200
               /\ SkipStudent(sid, t) => SkipResponse(activeSessions, sid, t).code = 200
      ]_vars

\* a session with a passed student and an assigned one: a mark with the stale
\* token, a mark with a bad status, a cut token, and an assign or skip by the
\* other teacher are all answered with an error here
C14_Witness ==
    \E sid \in Registered, t \in Teachers, stu \in Students :
        /\ activeSessions[sid].active /\ activeSessions[sid].hasStudent
        /\ stu \in DOMAIN activeSessions[sid].records
        /\ MarkResponse(activeSessions, MakeToken(sid, stu), "absent").kind
              = "StudentMismatch"
        /\ MarkResponse(activeSessions,
                        MakeToken(sid, CurrentOf(activeSessions[sid])), "late").kind
              = "Invalid"
        /\ MarkResponse(activeSessions, <<sid>>, "present").kind = "Invalid"
        /\ NextResponse(activeSessions, sid, t).kind = "Unauthorized"
        /\ SkipResponse(activeSessions, sid, t).kind = "Unauthorized"

\* C15: from a state in which a student is assigned, a skip by the owning
\* teacher and a mark with the current token and outcome absent are both
\* accepted and lead to the same session (outcomes, cursor, assigned, active):
\* a step is the one exactly when it is the other.
C15_SkipEqualsMarkAbsent ==
    /\ [](\A sid \in Registered :
            LET s == activeSessions[sid] IN
            s.hasStudent =>
               /\ s.active
               /\ SkipResponse(activeSessions, sid, s.teacherId).code = 200
               /\ MarkResponse(activeSessions, MakeToken(sid, CurrentOf(s)),
                               "absent").code = 200)
    /\ [][\A sid \in Registered :
            LET s == activeSessions[sid] IN
            s.hasStudent =>
               (SkipStudent(sid, s.teacherId)
                   <=> MarkAttendance(MakeToken(sid, CurrentOf(s)), "absent"))
         ]_vars

\* a student has been recorded absent and the next one is assigned
C15_Witness ==
    \E sid \in Registered :
        LET s == activeSessions[sid] IN
        /\ s.hasStudent
        /\ s.currentIndex >= 1
        /\ s.records[s.students[s.currentIndex]] = "absent"
        /\ sid \in assignedSince

\* C16: what current answers is a function of the registry alone and the call
\* changes nothing: no_session for an absent id, else ended for an inactive
\* session, else done with the present/absent counts of the outcomes when the
\* cursor is at the end, else active without student fields when no student is
\* assigned, else active with hasStudent, the student at the cursor, the token
\* sessionId:studentId, position cursor + 1 and total the roster size.
C16_CurrentContract ==
    /\ [](\A sid \in SessionIds :
            LET r == CurrentResponse(activeSessions, sid) IN
            IF sid \notin Registered
            THEN r.kind = "no_session" /\ ~r.hasStudent
                 /\ r.student = NoStudent /\ r.token = << >>
            ELSE LET s == activeSessions[sid] IN
                 IF ~s.active
                 THEN r.kind = "ended" /\ ~r.hasStudent
                      /\ r.student = NoStudent /\ r.token = << >>
                 ELSE IF s.currentIndex >= Len(s.students)
                 THEN /\ r.kind = "done" /\ ~r.hasStudent
                      /\ r.student = NoStudent /\ r.token = << >>
                      /\ r.total = Len(s.students)
                      /\ r.present = Cardinality({k \in DOMAIN s.records :
                                                     s.records[k] = "present"})
                      /\ r.absent = Cardinality({k \in DOMAIN s.records :
                                                    s.records[k] = "absent"})
                 ELSE IF ~s.hasStudent
                 THEN /\ r.kind = "active" /\ ~r.hasStudent
                      /\ r.student = NoStudent /\ r.token = << >>
                      /\ r.position = 0 /\ r.total = 0
                 ELSE /\ r.kind = "active" /\ r.hasStudent
                      /\ r.student = s.students[s.currentIndex + 1]
                      /\ r.token = <<sid, s.students[s.currentIndex + 1]>>
                      /\ r.position = s.currentIndex + 1
                      /\ r.total = Len(s.students))
    /\ [][\A sid \in SessionIds : GetCurrentStudent(sid) => UNCHANGED vars]_vars

\* current answers done with counts for a session that has students of both outcomes
C16_Witness ==
    \E sid \in Registered :
        LET r == CurrentResponse(activeSessions, sid) IN
        r.kind = "done" /\ r.present >= 1 /\ r.absent >= 1

\* the start handler rec is answered success in this step
StartSucceeds(rec) ==
    /\ StartCreate(rec)
    /\ StartCreateResponse(nextId, rec.students).code = 200

\* C17: a successful start adds exactly one session to the registry, with
\* cursor 0, active, not assigned, no outcomes and, as roster, the ordered list
\* the Student query returned for the teacher; it answers the id of that
\* session and totalStudents equal to the roster size.
C17_StartCreatesFreshSession ==
    [][/\ \A rec \in Suspended :
            StartFindStudents(rec)
               => reqs' = (reqs (-) SetToBag({rec})) (+) SetToBag({[rec EXCEPT
                      !.pc = "create",
                      !.students = SortAsc({x \in studentDb :
                                               TeacherOf(x) = rec.teacherId})]})
       /\ \A rec \in Suspended :
            StartSucceeds(rec)
               => LET r == StartCreateResponse(nextId, rec.students) IN
                  /\ DOMAIN activeSessions' \ DOMAIN activeSessions = {r.sessionId}
                  /\ r.total = Len(rec.students)
                  /\ LET s == activeSessions'[r.sessionId] IN
                     /\ s.sessionId = r.sessionId
                     /\ s.teacherId = rec.teacherId
                     /\ s.classId = rec.classId /\ s.date = rec.date
                     /\ s.currentIndex = 0 /\ s.active /\ ~s.hasStudent
                     /\ DOMAIN s.records = {}
                     /\ s.students = rec.students
                     /\ \A i \in 1..Len(s.students) :
                           /\ TeacherOf(s.students[i]) = s.teacherId
                           /\ \A j \in 1..Len(s.students) :
                                 i < j => s.students[i] < s.students[j]
      ]_vars

\* a fresh session whose roster is the list the query returned: a student the
\* teacher added afterwards is not in it
C17_Witness ==
    \E sid \in Registered :
        LET s == activeSessions[sid] IN
        /\ s.active /\ ~s.hasStudent /\ s.currentIndex = 0
        /\ DOMAIN s.records = {}
        /\ Len(s.students) >= 1
        /\ \E x \in studentDb :
              /\ TeacherOf(x) = s.teacherId
              /\ \A i \in 1..Len(s.students) : s.students[i] # x

\* C18: a successful start of teacher T takes every active session of T out of
\* the registry and hands nothing to the Attendance collection for it; calls
\* that name the old id are answered not found from then on; the sessions of
\* every other teacher stay as they are.
C18_StartEvictsOwnActive ==
    /\ [](\A sid \in SerialSessionIds :
            (sid < nextId /\ sid \notin Registered) => AnsweredNotFound(sid))
    /\ [][/\ \A rec \in Suspended :
               StartSucceeds(rec) =>
                  /\ \A sid \in Registered :
                        LET s == activeSessions[sid] IN
                        IF s.teacherId = rec.teacherId
                        THEN s.active
                                => /\ sid \notin DOMAIN activeSessions'
                                   /\ AnsweredNotFound(sid)'
                        ELSE /\ sid \in DOMAIN activeSessions'
                             /\ activeSessions'[sid] = s
                  /\ attendanceDb' = attendanceDb
                  /\ handedOver' = handedOver
                  /\ \A q \in BagToSet(reqs') : q.op # "stop" \/ q \in BagToSet(reqs)
          /\ \A sid \in SerialSessionIds :
               (sid < nextId /\ sid \notin Registered)
                  => sid \notin DOMAIN activeSessions'
         ]_vars

\* a session with recorded outcomes was evicted by a start of its teacher (no
\* stop is called in this run), nothing was stored, and a session of the other
\* teacher with recorded outcomes is still there
C18_Witness ==
    \E old \in SerialSessionIds, new \in Registered, other \in Registered :
        /\ old < new /\ old \notin Registered
        /\ activeSessions[new].teacherId # activeSessions[other].teacherId
        /\ other < new
        /\ DOMAIN activeSessions[other].records # {}
        /\ attendanceDb = << >>

\* C19: start answers ClassNotFound for a class that does not exist, else
\* NotOwner for a class of another teacher, else AttendanceAlreadyExists when
\* the lookup finds a record for (classId, date), else EmptyRoster when the
\* student query returns nothing; a start that fails adds no session and
\* evicts none.
C19_StartErrors ==
    /\ [](\A t \in Teachers, c \in Classes \cup {NoClass}, d \in Dates :
            LET r == StartCheckResponse(attendanceDb, t, c, d) IN
            IF c \notin Classes
            THEN r = BaseResp(404, "ClassNotFound")
            ELSE IF ClassOwner(c) # t
            THEN r = BaseResp(403, "NotOwner")
            ELSE IF \E i \in 1..Len(attendanceDb) :
                       attendanceDb[i].class = c /\ attendanceDb[i].date = d
            THEN r = BaseResp(400, "AttendanceAlreadyExists")
            ELSE r = Pending)
    /\ [](\A rec \in Suspended :
            (rec.op = "start" /\ rec.pc = "create") =>
               LET r == StartCreateResponse(nextId, rec.students) IN
               IF Len(rec.students) = 0
               THEN r = BaseResp(400, "EmptyRoster")
               ELSE r.code = 200)
    /\ [][/\ \A t \in Teachers, c \in Classes \cup {NoClass}, d \in Dates :
               StartSession(t, c, d) =>
                  /\ activeSessions' = activeSessions
                  /\ StartCheckResponse(attendanceDb, t, c, d) # Pending
                        => UNCHANGED vars
          /\ \A rec \in Suspended :
               (/\ StartCreate(rec)
                /\ StartCreateResponse(nextId, rec.students).code # 200)
                  => /\ activeSessions' = activeSessions
                     /\ nextId' = nextId
                     /\ attendanceDb' = attendanceDb
         ]_vars

\* a teacher has an active session with recorded outcomes and a record for
\* that class and date now exists, so a further start of the teacher fails;
\* a start of the other teacher is about to fail for its empty roster
C19_Witness ==
    \E sid \in Registered, rec \in Suspended :
        LET s == activeSessions[sid] IN
        /\ s.active /\ DOMAIN s.records # {}
        /\ StartCheckResponse(attendanceDb, s.teacherId, s.classId, s.date).kind
              = "AttendanceAlreadyExists"
        /\ rec.op = "start" /\ rec.pc = "create"
        /\ StartCreateResponse(nextId, rec.students).kind = "EmptyRoster"

\* C20: assign, skip, stop and status called by a teacher other than the
\* session's are answered Unauthorized and change nothing; a stop by a
\* non-owner neither deactivates, hands over nor removes the session.
C20_NonOwnerRefused ==
    /\ [](\A sid \in Registered, t \in Teachers :
            t # activeSessions[sid].teacherId =>
               /\ NextResponse(activeSessions, sid, t) = BaseResp(403, "Unauthorized")
               /\ SkipResponse(activeSessions, sid, t) = BaseResp(403, "Unauthorized")
               /\ StatusResponse(activeSessions, sid, t) = BaseResp(403, "Unauthorized")
               /\ \A save \in BOOLEAN :
                     StopResponse(activeSessions, sid, t, save)
                        = BaseResp(403, "Unauthorized"))
    /\ [][\A sid \in Registered, t \in Teachers :
            t # activeSessions[sid].teacherId =>
               /\ NextStudent(sid, t) => UNCHANGED vars
               /\ SkipStudent(sid, t) => UNCHANGED vars
               /\ GetSessionStatus(sid, t) => UNCHANGED vars
               /\ \A save \in BOOLEAN : StopSession(sid, t, save) => UNCHANGED vars
         ]_vars

\* an active session with an assigned student and recorded outcomes, which a
\* stop of the other teacher would find
C20_Witness ==
    \E sid \in Registered, t \in Teachers :
        /\ t # activeSessions[sid].teacherId
        /\ activeSessions[sid].active /\ activeSessions[sid].hasStudent
        /\ DOMAIN activeSessions[sid].records # {}
        /\ StopResponse(activeSessions, sid, t, TRUE).code = 403
        /\ StopResponse(activeSessions, sid, activeSessions[sid].teacherId, TRUE)
              = Pending

\* C21: a session whose active flag is false never becomes active again, and
\* from then on no assign, mark or skip takes effect on it: they are refused as
\* not active, and cursor, outcomes and assigned stay as they are until the
\* session is removed; a removed id never comes back.
C21_InactiveIsTerminal ==
    /\ [](\A sid \in Registered :
            ~activeSessions[sid].active =>
               /\ ~activeSessions[sid].hasStudent
               /\ NextResponse(activeSessions, sid,
                               activeSessions[sid].teacherId).kind = "NotActive"
               /\ SkipResponse(activeSessions, sid,
                               activeSessions[sid].teacherId).kind = "NotActive"
               /\ \A stu \in Students, st \in Statuses :
                     MarkResponse(activeSessions, MakeToken(sid, stu), st).kind
                        = "NotActive")
    /\ [][/\ \A sid \in Kept :
               ~activeSessions[sid].active
                  => activeSessions'[sid] = activeSessions[sid]
          /\ \A sid \in SessionIds \ Registered :
               sid < nextId => sid \notin DOMAIN activeSessions'
         ]_vars

\* a stopped session whose record is stored but which is still in the registry,
\* with students left on its roster
C21_Witness ==
    \E rec \in Suspended :
        /\ rec.op = "stop" /\ rec.pc = "created" /\ rec.sessionId \in Registered
        /\ ~activeSessions[rec.sessionId].active
        /\ activeSessions[rec.sessionId].currentIndex
              < Len(activeSessions[rec.sessionId].students)

C23_StatusContract ==
    /\ [](\A sid \in Registered :
            LET s == activeSessions[sid]
                r == StatusResponse(activeSessions, sid, s.teacherId)
            IN  /\ r.code = 200
                /\ r.active = s.active
                /\ r.hasStudent = s.hasStudent
                /\ r.position = s.currentIndex
                /\ r.total = Len(s.students)
                /\ r.present = Cardinality({k \in DOMAIN s.records :
                                               s.records[k] = "present"})
                /\ r.absent = Cardinality({k \in DOMAIN s.records :
                                              s.records[k] = "absent"})
                /\ r.pending = r.total - r.present - r.absent
                /\ r.student = IF s.active /\ s.currentIndex < Len(s.students)
                               THEN s.students[s.currentIndex + 1] ELSE NoStudent)
    /\ [][\A sid \in Registered :
            GetSessionStatus(sid, activeSessions[sid].teacherId) => UNCHANGED vars
         ]_vars

\* a stopped session with a present student and students still pending: status
\* shows the counts and no current student
C23_Witness ==
    \E sid \in Registered :
        LET s == activeSessions[sid]
            r == StatusResponse(activeSessions, sid, s.teacherId)
        IN  /\ ~r.active /\ r.present >= 1 /\ r.pending >= 1
            /\ r.position < r.total /\ r.student = NoStudent

\* C24: a call of the auto-next loop, made on a polled status of any age that
\* shows no student assigned and students left, never moves a cursor, never
\* changes an outcome and removes nothing; all it can change is the assigned
\* flag of its own session, from false to true, on an active session with
\* students left.  No student is passed over: every roster position before the
\* cursor has an outcome, so the student it assigns is the first one without.
C24_AutoNextOnlyAssigns ==
    /\ [](\A sid \in Registered :
            \A i \in 1..activeSessions[sid].currentIndex :
               activeSessions[sid].students[i] \in DOMAIN activeSessions[sid].records)
    /\ [][PageAutoNext =>
            /\ DOMAIN activeSessions' = DOMAIN activeSessions
            /\ attendanceDb' = attendanceDb
            /\ \A sid \in Registered :
                  LET s  == activeSessions[sid]
                      s2 == activeSessions'[sid]
                  IN  /\ s2.currentIndex = s.currentIndex
                      /\ s2.records = s.records
                      /\ s2 = [s EXCEPT !.hasStudent = s2.hasStudent]
                      /\ s2.hasStudent # s.hasStudent
                            => /\ sid = iotSession.sessionId
                               /\ s2.hasStudent /\ s.active
                               /\ s.currentIndex < Len(s.students)
                               /\ s.students[s.currentIndex + 1] \notin DOMAIN s.records
         ]_vars

\* the loop is due on a stale status: the page has polled cursor p without a
\* student, and since then the device or a manual call has moved the cursor on
C24_Witness ==
    /\ AutoNextDue
    /\ iotSession.sessionId \in Registered
    /\ LET s == activeSessions[iotSession.sessionId] IN
       /\ s.active /\ ~s.hasStudent
       /\ s.currentIndex > iotStatus.currentIndex
       /\ s.currentIndex < Len(s.students)

\* the handlers behind the operator operations start, stop, assign, skip and
\* status, and behind the device operations current and mark
OperatorHandlers ==
    {"startSession", "stopSession", "nextStudent", "skipStudent", "getSessionStatus"}
DeviceHandlers == {"getCurrentStudent", "markAttendance"}

\* C25: for every session in the registry, each of the five operator
\* operations on it has a route, and only routes behind the teacher
\* authentication; each of the two device operations has a route without
\* authentication.
C25_SurfacesExposed ==
    \A sid \in Registered :
        /\ \A h \in OperatorHandlers :
              /\ \E r \in IotRoutes : r.handler = h
              /\ \A r \in IotRoutes : r.handler = h => r.auth
        /\ \A h \in DeviceHandlers :
              \E r \in IotRoutes : r.handler = h /\ ~r.auth

\* C26: when a mark and a skip are issued for the same assigned student, only
\* the first takes effect.  Mark first: once the device's mark has recorded the
\* student as present and no student has been assigned since, the skip does
\* not move the cursor and records nothing.  Skip first: the mark with the
\* token of the skipped student is refused.
C26_OneAdvancePerAssign ==
    /\ [](\A sid \in Registered :
            LET s == activeSessions[sid] IN
            (s.active /\ s.currentIndex >= 1 /\ sid \notin assignedSince)
               => \A st \in Statuses :
                     MarkResponse(activeSessions,
                                  MakeToken(sid, s.students[s.currentIndex]), st).code
                        # 200)
    /\ [][\A sid \in Kept :
            LET s  == activeSessions[sid]
                s2 == activeSessions'[sid]
            IN  (/\ s.currentIndex >= 1
                 /\ s.records[s.students[s.currentIndex]] = "present"
                 /\ sid \notin assignedSince)
                   => /\ s2.currentIndex = s.currentIndex
                      /\ s2.records = s.records
         ]_vars

\* C27: in every session the outcomes have an entry for exactly the students at
\* the roster positions before the cursor: the number of outcomes is the
\* cursor, present + absent = cursor and pending = roster size - cursor.
C27_OutcomesMatchCursor ==
    \A sid \in Registered :
        LET s == activeSessions[sid]
            r == StatusResponse(activeSessions, sid, s.teacherId)
        IN  /\ DOMAIN s.records = {s.students[i] : i \in 1..s.currentIndex}
            /\ Cardinality(DOMAIN s.records) = s.currentIndex
            /\ \A k \in DOMAIN s.records : s.records[k] \in Statuses
            /\ r.present + r.absent = s.currentIndex
            /\ r.pending = Len(s.students) - s.currentIndex

\* a session with one student marked present, one student pending and that
\* student assigned
C27_Witness ==
    \E sid \in Registered :
        LET s == activeSessions[sid]
            r == StatusResponse(activeSessions, sid, s.teacherId)
        IN  /\ r.present = 1 /\ r.absent = 0 /\ r.pending = 1
            /\ s.hasStudent

\* C28: at the step in which start inserts a session for (classId, date), the
\* Attendance collection holds no record for (classId, date), whatever has run
\* between the lookup of start and the insertion.
C28_NoRecordAtInsertion ==
    [][\A rec \in Suspended :
          StartSucceeds(rec)
             => \A i \in 1..Len(attendanceDb) :
                   ~(/\ attendanceDb[i].class = rec.classId
                     /\ attendanceDb[i].date = rec.date)
      ]_vars

\* the session is active, its cursor is at the end of the roster and every
\* roster member has an outcome
Exhausted(sid) ==
    /\ sid \in Registered
    /\ activeSessions[sid].active
    /\ activeSessions[sid].currentIndex = Len(activeSessions[sid].students)
    /\ \A i \in 1..Len(activeSessions[sid].students) :
          activeSessions[sid].students[i] \in DOMAIN activeSessions[sid].records

\* C29: with an operator that keeps assigning and a device that keeps marking
\* what it is shown, a session that is not stopped or superseded eventually is
\* exhausted with an outcome for every roster member; and no call waits for
\* the other party: current, next and mark can be answered in every state.
C29_SessionCompletes ==
    /\ \A sid \in SessionIds :
          (sid \in Registered) ~> (sid \notin Registered \/ Exhausted(sid))
    /\ [](\A sid \in SessionIds :
            /\ ENABLED GetCurrentStudent(sid)
            /\ \A t \in Teachers : ENABLED NextStudent(sid, t)
            /\ \A stu \in Students, st \in Statuses :
                  ENABLED MarkAttendance(MakeToken(sid, stu), st))

\* a session worked through by operator and device, with a present student
C29_Witness ==
    \E sid \in Registered :
        /\ Exhausted(sid)
        /\ Len(activeSessions[sid].students) >= 2
        /\ \E k \in DOMAIN activeSessions[sid].records :
              activeSessions[sid].records[k] = "present"

\* C30: getActiveSession changes no state; it answers none with no session id
\* exactly when the registry holds no active session, and otherwise names a
\* session that is in the registry, is active, and whose createdAt no active
\* session exceeds.
C30_DiscoveryContract ==
    /\ [](LET r == ActiveSessionResponse(activeSessions)
              act == {k \in Registered : activeSessions[k].active}
          IN  /\ r.code = 200
              /\ act = {} => r.kind = "none" /\ r.sessionId = NoSession
              /\ act # {} => /\ r.kind = "active"
                             /\ r.sessionId \in act
                             /\ \A k \in act : activeSessions[k].createdAt
                                      <= activeSessions[r.sessionId].createdAt)
    /\ [][GetActiveSession => UNCHANGED vars]_vars

\* two active sessions of different age: the newer one is named
C30_Witness ==
    \E a \in Registered, b \in Registered :
        /\ activeSessions[a].active /\ activeSessions[b].active
        /\ activeSessions[a].createdAt < activeSessions[b].createdAt
        /\ ActiveSessionResponse(activeSessions).sessionId = b


====
